---- MODULE Spec2Model ----
(***************************************************************************)
(* Heat-Pump-Efficacy-Dashboard: the reactive session of src/app.py.       *)
(*                                                                         *)
(* One user session of the Shiny application: the inputs of app_ui, the    *)
(* two cached calculations (apiresponse, filter_df), the effect            *)
(* updateslider and the four rendered outputs (text, map, hist_table,      *)
(* plot).  An input change is one step: the input is set, every node that  *)
(* read it is invalidated, and the flush re-executes the invalidated       *)
(* nodes before the step ends.  update_slider only sends a message to the  *)
(* browser; the browser applies it in a later step and reports the new     *)
(* slider values back as ordinary input changes.                           *)
(*                                                                         *)
(* Temperatures are integers.  Coordinates are integers in units of 1e-5   *)
(* degree, rounded coordinates in units of 1e-4 degree.  A proportion is   *)
(* kept in thousandths.  A rolling mean is kept as the pair sum / nobs.    *)
(***************************************************************************)
EXTENDS Integers, Sequences, FiniteSets, TLC

VARIABLES
    started,       \* the session's first flush has run
    city,          \* input.city()
    daterange,     \* input.daterange(), <<start, end>> as day numbers
    tempunits,     \* input.tempunits()
    plotTemp,      \* input.plotTemp()
    plotOptions,   \* input.plotOptions()
    tableTemp,     \* input.tableTemp(), <<low, high>>
    tab,           \* the selected nav panel
    plotMin, plotMax,     \* the plotTemp slider's bounds in the browser
    tableMin, tableMax,   \* the tableTemp slider's bounds in the browser
    toClient,      \* update_slider messages sent and not yet applied
    apiCache,      \* cached outcome of apiresponse
    dfCache,       \* cached dataframe object of filter_df
    dirty,         \* hidden outputs invalidated and not yet re-rendered
    textOut, mapOut, plotOut, tableOut,   \* what each output shows
    fetchCount,    \* calls of openmeteo.weather_api
    lastFetch      \* parameters and response of the latest call

vars == <<started, city, daterange, tempunits, plotTemp, plotOptions, tableTemp,
          tab, plotMin, plotMax, tableMin, tableMax, toClient, apiCache, dfCache,
          dirty, textOut, mapOut, plotOut, tableOut, fetchCount, lastFetch>>

(***************************************************************************)
(* Bounds of the model.                                                    *)
(***************************************************************************)
MaxFetch == 2
MaxPending == 1
MaxExhaustiveLen == 2
MaxGenLen == 31
MaxSeed == 3
MaxRange == 2

(***************************************************************************)
(* The city catalog (data/cities.csv) and the values the user can choose.  *)
(***************************************************************************)
Cities == {"Urbana, Illinois", "Champaign, Illinois"}

Catalog(c) ==
    IF c = "Urbana, Illinois"
    THEN [lat |-> 4011060, lng |-> -8819720]
    ELSE [lat |-> 4011640, lng |-> -8824340]

Units == {"fahrenheit", "celsius"}

DateRanges == {<<1, 1>>, <<1, 2>>}

\* The archive's daily minimum of a day, in the requested unit.
Archive(day, u) ==
    IF day % 2 = 1
    THEN (IF u = "fahrenheit" THEN 5 ELSE -15)
    ELSE (IF u = "fahrenheit" THEN -4 ELSE -20)

PlotOptionChoices == {{}, {"weekly", "monthly"}}

CoordDeltas == {0, 37}

UserPlotTemps == {10}

UserTableRanges == {<<-10, 0>>}

Tabs == {"Historical", "About"}

Nodes == {"apiresponse", "filter_df", "text", "updateslider", "map", "hist_table", "plot"}

HiddenOnAbout == {"hist_table", "plot"}

(***************************************************************************)
(* The weather service: what one call of weather_api can return.          *)
(***************************************************************************)
ErrorResponse == [kind |-> "error"]

NoResponse == [kind |-> "none"]

Params(c, d, u) ==
    [latitude |-> Catalog(c).lat, longitude |-> Catalog(c).lng,
     start_date |-> d[1], end_date |-> d[2], temperature_unit |-> u]

ApiOutcomes(p) ==
    {ErrorResponse} \cup
    {[kind |-> "ok", lat |-> p.latitude + dl, lng |-> p.longitude + dl,
      unit |-> p.temperature_unit,
      time |-> p.start_date, timeEnd |-> p.end_date + 1, interval |-> 1,
      values |-> [i \in 1..(p.end_date - p.start_date + 1) |->
                    Archive(p.start_date + i - 1, p.temperature_unit)]] :
        dl \in CoordDeltas}

(***************************************************************************)
(* apiresponse: req(input.city()) stops the calculation silently when no   *)
(* city is selected; otherwise the response of the call is the value.      *)
(***************************************************************************)
Apiresponse(c, resp) == IF c = "" THEN [kind |-> "silent"] ELSE resp

(***************************************************************************)
(* filter_df: the dataframe built from a response.                         *)
(***************************************************************************)
RECURSIVE DateRange(_, _, _)
DateRange(time, timeEnd, interval) ==
    IF time >= timeEnd THEN <<>>
    ELSE <<time>> \o DateRange(time + interval, timeEnd, interval)

DataFrame(kind, date, values) ==
    [kind |-> kind, date |-> date, temperature_2m_min |-> values,
     weekrollingavg |-> <<>>, monthrollingavg |-> <<>>,
     columns |-> IF kind = "ok" THEN {"date", "temperature_2m_min"} ELSE {}]

InvalidDf == DataFrame("none", <<>>, <<>>)

FilterDf(api) ==
    IF api.kind = "ok"
    THEN LET date == DateRange(api.time, api.timeEnd, api.interval)
         IN  IF Len(date) = Len(api.values)
             THEN DataFrame("ok", date, api.values)
             ELSE DataFrame("error", <<>>, <<>>)
    ELSE DataFrame(api.kind, <<>>, <<>>)

EnsureDf(df, api) == IF df.kind # "none" THEN df ELSE FilterDf(api)

(***************************************************************************)
(* text and map.                                                           *)
(***************************************************************************)
Round4(x) ==
    LET q == x \div 10
        r == x % 10
    IN  IF r > 5 \/ (r = 5 /\ q % 2 = 1) THEN q + 1 ELSE q

Failed(kind) == [kind |-> IF kind = "error" THEN "error" ELSE "blank"]

\* Variant of text: the coordinate taken from the catalog entry of the city.
TextFromCatalog(api) ==
    IF api.kind = "ok"
    THEN [kind |-> "text", north |-> Round4(Catalog(city').lat),
          east |-> Round4(Catalog(city').lng)]
    ELSE Failed(api.kind)

Text(api) ==
    IF api.kind = "ok"
    THEN [kind |-> "text", north |-> Round4(api.lat), east |-> Round4(api.lng)]
    ELSE Failed(api.kind)

MapWidget(api) ==
    IF api.kind = "ok"
    THEN [kind |-> "map", center |-> <<api.lat, api.lng>>,
          marker |-> <<api.lat, api.lng>>, zoom |-> 12]
    ELSE Failed(api.kind)

(***************************************************************************)
(* updateslider: the two update_slider messages of one run.                *)
(***************************************************************************)
\* Variant of updateslider: the plotTemp value not switched with the unit.
UpdatesliderKeepsFahrenheitValue(u) ==
    [plotTemp |-> [value |-> 5,
                   min |-> IF u = "fahrenheit" THEN -15 ELSE -25,
                   max |-> IF u = "fahrenheit" THEN 50 ELSE 10],
     tableTemp |-> [value |-> IF u = "fahrenheit" THEN <<0, 15>> ELSE <<-20, -10>>,
                    min |-> IF u = "fahrenheit" THEN -25 ELSE -30,
                    max |-> IF u = "fahrenheit" THEN 60 ELSE 15]]

Updateslider(u) ==
    [plotTemp |-> [value |-> IF u = "fahrenheit" THEN 5 ELSE -15,
                   min |-> IF u = "fahrenheit" THEN -15 ELSE -25,
                   max |-> IF u = "fahrenheit" THEN 50 ELSE 10],
     tableTemp |-> [value |-> IF u = "fahrenheit" THEN <<0, 15>> ELSE <<-20, -10>>,
                    min |-> IF u = "fahrenheit" THEN -25 ELSE -30,
                    max |-> IF u = "fahrenheit" THEN 60 ELSE 15]]

(***************************************************************************)
(* plot: the rolling means it stores in the dataframe and the figure.      *)
(* rolling(window = w).mean() keeps a sliding sum and a count of the       *)
(* observations in the window; it yields sum / nobs once nobs reaches      *)
(* min_periods (the window when not given) and NaN before that.            *)
(***************************************************************************)
RECURSIVE RollSum(_, _, _)
RollSum(s, w, k) ==
    IF k = 0 THEN 0
    ELSE RollSum(s, w, k - 1) + s[k] - (IF k > w THEN s[k - w] ELSE 0)

Rolling(s, w, minp) ==
    [k \in 1..Len(s) |->
        LET nobs == IF k < w THEN k ELSE w
        IN  IF nobs >= minp
            THEN [absent |-> FALSE, sum |-> RollSum(s, w, k), nobs |-> nobs]
            ELSE [absent |-> TRUE, sum |-> 0, nobs |-> 0]]

\* Variant of the rolling mean: min_periods = 1.
RollingMeanMinPeriods1(s, w) == Rolling(s, w, 1)

RollingMean(s, w) == Rolling(s, w, w)

\* The rows of df in which both rolling means are present (dropna).
DropNa(df) ==
    LET keep == {i \in DOMAIN df.temperature_2m_min :
                    ~df.weekrollingavg[i].absent /\ ~df.monthrollingavg[i].absent}
        n == Cardinality(keep)
        Nth(k) == CHOOSE i \in keep : Cardinality({j \in keep : j < i}) = k - 1
    IN  [df EXCEPT !.date = [k \in 1..n |-> df.date[Nth(k)]],
                   !.temperature_2m_min = [k \in 1..n |-> df.temperature_2m_min[Nth(k)]],
                   !.weekrollingavg = [k \in 1..n |-> df.weekrollingavg[Nth(k)]],
                   !.monthrollingavg = [k \in 1..n |-> df.monthrollingavg[Nth(k)]]]

AddRolling(df) ==
    [df EXCEPT !.weekrollingavg = RollingMean(df.temperature_2m_min, 7),
               !.monthrollingavg = RollingMean(df.temperature_2m_min, 30),
               !.columns = @ \cup {"weekrollingavg", "monthrollingavg"}]

\* Variant of plot: the rows without a rolling mean dropped in place.
PlotDfDropsIncompleteRows(df) == IF df.kind = "ok" THEN DropNa(AddRolling(df)) ELSE df

PlotDf(df) == IF df.kind = "ok" THEN AddRolling(df) ELSE df

PlotFig(df, pt, opts, units) ==
    IF df.kind # "ok" THEN Failed(df.kind)
    ELSE [kind |-> "fig",
          upper |-> {i \in DOMAIN df.temperature_2m_min : df.temperature_2m_min[i] >= pt},
          lower |-> {i \in DOMAIN df.temperature_2m_min : df.temperature_2m_min[i] < pt},
          hline |-> pt,
          weekly |-> IF "weekly" \in opts THEN df.weekrollingavg ELSE <<>>,
          monthly |-> IF "monthly" \in opts THEN df.monthrollingavg ELSE <<>>,
          ylabel |-> IF units = "fahrenheit"
                     THEN "Daily Minimum Temperature F"
                     ELSE "Daily Minimum Temperature C"]

(***************************************************************************)
(* hist_table.                                                             *)
(***************************************************************************)
RECURSIVE Arange(_, _, _)
Arange(start, stop, step) ==
    IF (step < 0 /\ start <= stop) \/ (step > 0 /\ start >= stop) THEN <<>>
    ELSE <<start>> \o Arange(start + step, stop, step)

\* Variant of the table's temperatures: np.arange stopping at low.
HistTableTempsExcludesLow(tt) == Arange(tt[2], tt[1], -1)

HistTableTemps(tt) == Arange(tt[2], tt[1] - 1, -1)

RECURSIVE CountBelow(_, _, _)
CountBelow(temps, t, inclusive) ==
    IF temps = <<>> THEN 0
    ELSE (IF Head(temps) < t \/ (inclusive /\ Head(temps) = t) THEN 1 ELSE 0)
         + CountBelow(Tail(temps), t, inclusive)

\* Variant of Days Below: entries equal to the temperature counted.
DaysBelowInclusive(temps, t) == CountBelow(temps, t, TRUE)

DaysBelow(temps, t) == CountBelow(temps, t, FALSE)

RoundHalfEven(num, den) ==
    LET q == num \div den
        r == num % den
    IN  IF 2 * r > den \/ (2 * r = den /\ q % 2 = 1) THEN q + 1 ELSE q

\* Variant of Proportion Below: the quotient cut after three decimals.
ProportionTruncated(days, n) ==
    IF n = 0 THEN [nan |-> TRUE, milli |-> 0]
    ELSE [nan |-> FALSE, milli |-> (1000 * days) \div n]

Proportion(days, n) ==
    IF n = 0 THEN [nan |-> TRUE, milli |-> 0]
    ELSE [nan |-> FALSE, milli |-> RoundHalfEven(1000 * days, n)]

HistTable(df, tt) ==
    IF df.kind # "ok" THEN Failed(df.kind)
    ELSE LET vallist == HistTableTemps(tt)
             temps == df.temperature_2m_min
         IN  [kind |-> "grid",
              rows |-> [k \in 1..Len(vallist) |->
                          [Temp |-> vallist[k],
                           DaysBelow |-> DaysBelow(temps, vallist[k]),
                           ProportionBelow |->
                               Proportion(DaysBelow(temps, vallist[k]), Len(temps))]]]

(***************************************************************************)
(* The reactive graph.  Each node depends on what its last run read; an    *)
(* input change invalidates every node that depends on it, directly or     *)
(* through a calculation.  A node whose first read failed read nothing     *)
(* after it.                                                               *)
(***************************************************************************)
\* Variant of apiresponse's reads: input.plotTemp() read as well.
ApiresponseDepsReadsPlotTemp ==
    IF city = "" THEN {"daterange", "city"}
    ELSE {"daterange", "city", "tempunits", "plotTemp"}

ApiresponseDeps ==
    IF city = "" THEN {"daterange", "city"} ELSE {"daterange", "city", "tempunits"}

FilterDfDeps == {"apiresponse"}

TextDeps == {"apiresponse"}

UpdatesliderDeps == {"tempunits"}

MapDeps == {"apiresponse"}

HistTableDeps ==
    IF dfCache.kind = "ok" THEN {"filter_df", "tableTemp"} ELSE {"filter_df"}

PlotDeps ==
    IF dfCache.kind = "ok"
    THEN {"filter_df", "plotTemp", "plotOptions", "tempunits"}
    ELSE {"filter_df"}

Deps(n) ==
    CASE n = "apiresponse" -> ApiresponseDeps
      [] n = "filter_df" -> FilterDfDeps
      [] n = "text" -> TextDeps
      [] n = "updateslider" -> UpdatesliderDeps
      [] n = "map" -> MapDeps
      [] n = "hist_table" -> HistTableDeps
      [] n = "plot" -> PlotDeps

Dependents(S) == {n \in Nodes : Deps(n) \cap S # {}}

Invalidated(changed) ==
    LET d1 == Dependents(changed)
        d2 == d1 \cup Dependents(d1)
    IN  d2 \cup Dependents(d2)

Inputs ==
    [city |-> city, daterange |-> daterange, tempunits |-> tempunits,
     plotTemp |-> plotTemp, plotOptions |-> plotOptions, tableTemp |-> tableTemp,
     tab |-> tab]

(***************************************************************************)
(* One flush: the inputs take the values `in`, the nodes of `inv` are      *)
(* invalid.  text and map are always shown, so an invalid apiresponse is   *)
(* always recomputed; filter_df is recomputed when plot or hist_table      *)
(* asks for it; plot and hist_table run only while their panel is shown.   *)
(* `resp` is the outcome of the call when one is made, `plotFirst` the     *)
(* order in which plot and hist_table run, `queue` the messages already    *)
(* on their way to the browser.                                            *)
(***************************************************************************)
Flush(in, inv, resp, plotFirst, queue) ==
    LET runApi == "apiresponse" \in inv
        fetch == runApi /\ in.city # ""
        api == IF runApi THEN Apiresponse(in.city, resp) ELSE apiCache
        df0 == IF "filter_df" \in inv THEN InvalidDf ELSE dfCache
        pending == dirty \cup (inv \cap HiddenOnAbout)
        run == IF in.tab = "Historical" THEN pending ELSE {}
        df1 == EnsureDf(df0, api)
        dfPlot == PlotDf(df1)
        dfTable == IF "plot" \in run /\ plotFirst THEN dfPlot ELSE df1
    IN  /\ fetch => fetchCount < MaxFetch
        /\ city' = in.city
        /\ daterange' = in.daterange
        /\ tempunits' = in.tempunits
        /\ plotTemp' = in.plotTemp
        /\ plotOptions' = in.plotOptions
        /\ tableTemp' = in.tableTemp
        /\ tab' = in.tab
        /\ apiCache' = api
        /\ fetchCount' = IF fetch THEN fetchCount + 1 ELSE fetchCount
        /\ lastFetch' = IF fetch
                        THEN [params |-> Params(in.city, in.daterange, in.tempunits),
                              response |-> resp]
                        ELSE lastFetch
        /\ dfCache' = IF "plot" \in run THEN dfPlot
                      ELSE IF "hist_table" \in run THEN df1
                      ELSE df0
        /\ dirty' = pending \ run
        /\ textOut' = IF "text" \in inv THEN Text(api) ELSE textOut
        /\ mapOut' = IF "map" \in inv THEN MapWidget(api) ELSE mapOut
        /\ plotOut' = IF "plot" \in run
                      THEN PlotFig(dfPlot, in.plotTemp, in.plotOptions, in.tempunits)
                      ELSE plotOut
        /\ tableOut' = IF "hist_table" \in run
                       THEN HistTable(dfTable, in.tableTemp)
                       ELSE tableOut
        /\ toClient' = IF "updateslider" \in inv
                       THEN Append(queue, Updateslider(in.tempunits))
                       ELSE queue

\* The outcomes of the call a flush of `inv` with inputs `in` would make.
Outcomes(in, inv) ==
    IF "apiresponse" \in inv /\ in.city # ""
    THEN ApiOutcomes(Params(in.city, in.daterange, in.tempunits))
    ELSE {NoResponse}

\* The orders in which a flush of `inv` with inputs `in` can run plot and
\* hist_table: both, when both run.
Orders(in, inv) ==
    IF in.tab = "Historical" /\ HiddenOnAbout \subseteq (dirty \cup inv)
    THEN BOOLEAN
    ELSE {TRUE}

Change(in, changed) ==
    /\ started
    /\ \E resp \in Outcomes(in, Invalidated(changed)),
          plotFirst \in Orders(in, Invalidated(changed)) :
          Flush(in, Invalidated(changed), resp, plotFirst, toClient)
    /\ UNCHANGED <<started, plotMin, plotMax, tableMin, tableMax>>

(***************************************************************************)
(* The session.                                                            *)
(***************************************************************************)
Blank == [kind |-> "blank"]

Init ==
    /\ started = FALSE
    /\ city = "Urbana, Illinois"
    /\ daterange = <<1, 2>>
    /\ tempunits = "fahrenheit"
    /\ plotTemp = 5
    /\ plotMin = -15
    /\ plotMax = 50
    /\ plotOptions = {}
    /\ tableTemp = <<0, 15>>
    /\ tableMin = -25
    /\ tableMax = 60
    /\ tab = "Historical"
    /\ toClient = <<>>
    /\ apiCache = NoResponse
    /\ dfCache = InvalidDf
    /\ dirty = {}
    /\ textOut = Blank
    /\ mapOut = Blank
    /\ plotOut = Blank
    /\ tableOut = Blank
    /\ fetchCount = 0
    /\ lastFetch = [params |-> NoResponse, response |-> NoResponse]

\* The browser connects: every effect and every output runs once.
Startup ==
    /\ ~started
    /\ started' = TRUE
    /\ \E resp \in Outcomes(Inputs, Nodes), plotFirst \in Orders(Inputs, Nodes) :
          Flush(Inputs, Nodes, resp, plotFirst, toClient)
    /\ UNCHANGED <<plotMin, plotMax, tableMin, tableMax>>

SetCity ==
    \E c \in (Cities \cup {""}) \ {city} :
        Change([Inputs EXCEPT !.city = c], {"city"})

SetDaterange ==
    \E d \in DateRanges \ {daterange} :
        Change([Inputs EXCEPT !.daterange = d], {"daterange"})

SetTempunits ==
    /\ Len(toClient) < MaxPending
    /\ \E u \in Units \ {tempunits} :
        Change([Inputs EXCEPT !.tempunits = u], {"tempunits"})

SetPlotTemp ==
    \E v \in UserPlotTemps \ {plotTemp} :
        /\ plotMin <= v /\ v <= plotMax
        /\ Change([Inputs EXCEPT !.plotTemp = v], {"plotTemp"})

SetPlotOptions ==
    \E o \in PlotOptionChoices \ {plotOptions} :
        Change([Inputs EXCEPT !.plotOptions = o], {"plotOptions"})

SetTableTemp ==
    \E t \in UserTableRanges \ {tableTemp} :
        /\ tableMin <= t[1] /\ t[2] <= tableMax
        /\ Change([Inputs EXCEPT !.tableTemp = t], {"tableTemp"})

SetTab ==
    \E t \in Tabs \ {tab} :
        Change([Inputs EXCEPT !.tab = t], {"tab"})

\* The browser applies the oldest update_slider message: both sliders take
\* the message's bounds and values, and a value that changed comes back to
\* the server as an input change.
ApplyUpdate ==
    /\ started
    /\ toClient # <<>>
    /\ LET msg == Head(toClient)
           in == [Inputs EXCEPT !.plotTemp = msg.plotTemp.value,
                                !.tableTemp = msg.tableTemp.value]
           changed == (IF msg.plotTemp.value # plotTemp THEN {"plotTemp"} ELSE {})
                      \cup (IF msg.tableTemp.value # tableTemp THEN {"tableTemp"} ELSE {})
           inv == Invalidated(changed)
       IN  /\ plotMin' = msg.plotTemp.min
           /\ plotMax' = msg.plotTemp.max
           /\ tableMin' = msg.tableTemp.min
           /\ tableMax' = msg.tableTemp.max
           /\ \E resp \in Outcomes(in, inv), plotFirst \in Orders(in, inv) :
                 Flush(in, inv, resp, plotFirst, Tail(toClient))
    /\ UNCHANGED started

Next ==
    \/ Startup
    \/ SetCity
    \/ SetDaterange
    \/ SetTempunits
    \/ SetPlotTemp
    \/ SetPlotOptions
    \/ SetTableTemp
    \/ SetTab
    \/ ApplyUpdate

Spec == Init /\ [][Next]_vars

(***************************************************************************)
(* hist_table and plot on their own: a dataframe and a table range drawn   *)
(* from bounded sets, each function applied once.                          *)
(***************************************************************************)
PureTemps == (0 - 1)..1

GenSeries(seed, n) == [i \in 1..n |-> ((seed * i * i + 3 * i + seed) % 11) - 5]

SeriesInputs ==
    (UNION {[1..n -> PureTemps] : n \in 0..MaxExhaustiveLen})
    \cup {GenSeries(seed, n) : seed \in 1..MaxSeed, n \in 0..MaxGenLen}

RangeInputs == ((0 - MaxRange)..MaxRange) \X ((0 - MaxRange)..MaxRange)

InitPure ==
    /\ started = TRUE
    /\ city = "Urbana, Illinois"
    /\ daterange = <<1, 2>>
    /\ tempunits = "fahrenheit"
    /\ plotTemp = 0
    /\ plotMin = -15
    /\ plotMax = 50
    /\ plotOptions = {"weekly", "monthly"}
    /\ tableTemp \in RangeInputs
    /\ tableMin = -25
    /\ tableMax = 60
    /\ tab = "Historical"
    /\ toClient = <<>>
    /\ apiCache = NoResponse
    /\ \E v \in SeriesInputs :
          dfCache = FilterDf([kind |-> "ok", time |-> 1, timeEnd |-> Len(v) + 1,
                              interval |-> 1, values |-> v])
    /\ dirty = {}
    /\ textOut = Blank
    /\ mapOut = Blank
    /\ plotOut = Blank
    /\ tableOut = Blank
    /\ fetchCount = 0
    /\ lastFetch = [params |-> NoResponse, response |-> NoResponse]

RenderHistTable ==
    /\ tableOut = Blank
    /\ tableOut' = HistTable(dfCache, tableTemp)
    /\ UNCHANGED <<started, city, daterange, tempunits, plotTemp, plotOptions,
                   tableTemp, tab, plotMin, plotMax, tableMin, tableMax, toClient,
                   apiCache, dfCache, dirty, textOut, mapOut, plotOut, fetchCount,
                   lastFetch>>

RenderPlot ==
    /\ plotOut = Blank
    /\ dfCache' = PlotDf(dfCache)
    /\ plotOut' = PlotFig(PlotDf(dfCache), plotTemp, plotOptions, tempunits)
    /\ UNCHANGED <<started, city, daterange, tempunits, plotTemp, plotOptions,
                   tableTemp, tab, plotMin, plotMax, tableMin, tableMax, toClient,
                   apiCache, dirty, textOut, mapOut, tableOut, fetchCount,
                   lastFetch>>

NextPure ==
    \/ RenderHistTable
    \/ RenderPlot

SpecPure == InitPure /\ [][NextPure]_vars

(***************************************************************************)
(* Properties.                                                             *)
(***************************************************************************)

\* C1: a step that leaves city, date range and unit system as they were
\* (a change of plotTemp, plotOptions, tableTemp or of the panel, or the
\* browser applying a slider update) makes no call of weather_api; only the
\* session's first flush fetches without such a change.
FetchIsolation ==
    [][(started /\ city' = city /\ daterange' = daterange /\ tempunits' = tempunits)
          => fetchCount' = fetchCount]_vars

\* C1 witness: the three unrelated inputs have all been moved by the user,
\* the plot shows the moved threshold, and the only call is the first one.
FetchIsolationWitness ==
    /\ started
    /\ fetchCount = 1
    /\ plotOptions # {}
    /\ tableTemp = <<-10, 0>>
    /\ plotOut.kind = "fig"
    /\ plotOut.hline = 10

\* The slider values and bounds the specification documents for a unit.
ResetValues(u) ==
    IF u = "celsius"
    THEN [plotTemp |-> -15, plotMin |-> -25, plotMax |-> 10,
          tableTemp |-> <<-20, -10>>, tableMin |-> -30, tableMax |-> 15]
    ELSE [plotTemp |-> 5, plotMin |-> -15, plotMax |-> 50,
          tableTemp |-> <<0, 15>>, tableMin |-> -25, tableMax |-> 60]

Sliders ==
    [plotTemp |-> plotTemp, plotMin |-> plotMin, plotMax |-> plotMax,
     tableTemp |-> tableTemp, tableMin |-> tableMin, tableMax |-> tableMax]

AsSliders(msg) ==
    [plotTemp |-> msg.plotTemp.value, plotMin |-> msg.plotTemp.min,
     plotMax |-> msg.plotTemp.max, tableTemp |-> msg.tableTemp.value,
     tableMin |-> msg.tableTemp.min, tableMax |-> msg.tableTemp.max]

\* C2: every change of the unit system makes updateslider send the new
\* unit's documented values and bounds for both sliders, and when the
\* browser applies a message both sliders take exactly its values and
\* bounds, wherever they stood before.
UnitSwitchResetsSliders ==
    [][/\ tempunits' # tempunits =>
            /\ toClient' # <<>>
            /\ Len(toClient') = Len(toClient) + 1
            /\ AsSliders(toClient'[Len(toClient')]) = ResetValues(tempunits')
       /\ (toClient # <<>> /\ toClient' = Tail(toClient)) =>
            Sliders' = AsSliders(Head(toClient))]_vars

\* C2 witness: after a switch to celsius, made while the user had moved both
\* sliders, the browser has applied the update and both sliders stand at the
\* celsius values.
UnitSwitchWitness ==
    /\ started
    /\ tempunits = "celsius"
    /\ toClient = <<>>
    /\ Sliders = ResetValues("celsius")
    /\ plotOut.kind = "fig"
    /\ plotOut.hline = -15

RECURSIVE WindowSum(_, _, _)
WindowSum(s, a, b) == IF a > b THEN 0 ELSE s[a] + WindowSum(s, a + 1, b)

MeanOfWindow(avg, s, k, w) ==
    /\ ~avg.absent
    /\ avg.nobs = w
    /\ avg.sum * w = WindowSum(s, k - w + 1, k) * avg.nobs

\* C6: once plot has stored the rolling columns, entry i (counted from 0,
\* row i + 1 here) of weekrollingavg is absent for i <= 5 and is the mean of
\* the 7 values at [i-6, i] for i >= 6; entry i of monthrollingavg is absent
\* for i <= 28 and is the mean of the 30 values at [i-29, i] for i >= 29.
RollingAveragesAreWindowMeans ==
    "weekrollingavg" \in dfCache.columns =>
        LET s == dfCache.temperature_2m_min
        IN  /\ Len(dfCache.weekrollingavg) = Len(s)
            /\ Len(dfCache.monthrollingavg) = Len(s)
            /\ \A k \in 1..Len(s) :
                  /\ k - 1 <= 5 => dfCache.weekrollingavg[k].absent
                  /\ k - 1 >= 6 => MeanOfWindow(dfCache.weekrollingavg[k], s, k, 7)
                  /\ k - 1 <= 28 => dfCache.monthrollingavg[k].absent
                  /\ k - 1 >= 29 => MeanOfWindow(dfCache.monthrollingavg[k], s, k, 30)

\* C6 witness: plot has run on a series long enough for both windows to
\* fill, with values that differ inside the window.
RollingAveragesWitness ==
    /\ "monthrollingavg" \in dfCache.columns
    /\ Len(dfCache.temperature_2m_min) >= 31
    /\ ~dfCache.monthrollingavg[31].absent
    /\ dfCache.weekrollingavg[5].absent
    /\ dfCache.weekrollingavg[7].sum # dfCache.weekrollingavg[8].sum
    /\ dfCache.monthrollingavg[30].sum # dfCache.monthrollingavg[31].sum

\* C3: the table has one row per integer from high down to low, descending
\* by one, high - low + 1 rows when low <= high and none when low > high.
TableRowsDescendFromHighToLow ==
    tableOut.kind = "grid" =>
        LET low == tableTemp[1]
            high == tableTemp[2]
            rows == tableOut.rows
        IN  /\ low <= high => Len(rows) = high - low + 1
            /\ low > high => rows = <<>>
            /\ \A k \in 1..Len(rows) : rows[k].Temp = high - (k - 1)
            /\ \A k \in 1..Len(rows) : low <= rows[k].Temp /\ rows[k].Temp <= high

\* C3 witness: a table over a range of several temperatures.
TableRowsWitness ==
    /\ tableOut.kind = "grid"
    /\ tableTemp[1] + 2 <= tableTemp[2]
    /\ Len(tableOut.rows) >= 3

\* C4: each row's Days Below is the number of entries of the series whose
\* temperature is strictly less than the row's temperature.
DaysBelowCountsStrictlyBelow ==
    tableOut.kind = "grid" =>
        LET s == dfCache.temperature_2m_min
        IN  \A k \in 1..Len(tableOut.rows) :
                tableOut.rows[k]["DaysBelow"] =
                    Cardinality({i \in 1..Len(s) : s[i] < tableOut.rows[k].Temp})

\* C4 witness: a row whose temperature equals one entry of the series, is
\* above another and below a third.
DaysBelowWitness ==
    /\ tableOut.kind = "grid"
    /\ \E k \in 1..Len(tableOut.rows) :
          LET s == dfCache.temperature_2m_min
              t == tableOut.rows[k].Temp
          IN  /\ \E i \in 1..Len(s) : s[i] = t
              /\ \E i \in 1..Len(s) : s[i] < t
              /\ \E i \in 1..Len(s) : s[i] > t
              /\ tableOut.rows[k]["DaysBelow"] > 0

\* C8: for a series that is not empty each row's Proportion Below is a
\* number of thousandths in [0, 1] within half a thousandth of
\* Days Below / length of the series.
ProportionRoundedToThreeDecimals ==
    (tableOut.kind = "grid" /\ Len(dfCache.temperature_2m_min) > 0) =>
        LET n == Len(dfCache.temperature_2m_min)
        IN  \A k \in 1..Len(tableOut.rows) :
                LET p == tableOut.rows[k].ProportionBelow
                    d == tableOut.rows[k]["DaysBelow"]
                    err == 1000 * d - p.milli * n
                IN  /\ ~p.nan
                    /\ 0 <= p.milli /\ p.milli <= 1000
                    /\ 2 * err <= n
                    /\ 2 * (0 - err) <= n

\* C8 witness: a row whose quotient is not a whole number of thousandths
\* and is rounded up.
ProportionWitness ==
    /\ tableOut.kind = "grid"
    /\ Len(dfCache.temperature_2m_min) > 0
    /\ \E k \in 1..Len(tableOut.rows) :
          tableOut.rows[k].ProportionBelow.milli * Len(dfCache.temperature_2m_min)
              > 1000 * tableOut.rows[k]["DaysBelow"]

\* C5: hist_table given a series of length zero ends in an error and shows
\* no table (no row whose proportion is a division by the zero length).
EmptySeriesIsAnError ==
    (tableOut # Blank /\ dfCache.kind = "ok" /\ Len(dfCache.temperature_2m_min) = 0)
        => tableOut.kind = "error"

\* C7: the coordinate text shows, and the map is centred and marked at, the
\* coordinate of the latest response of the service.
CoordinateFromResponse ==
    /\ textOut.kind = "text" =>
          /\ lastFetch.response.kind = "ok"
          /\ textOut.north = Round4(lastFetch.response.lat)
          /\ textOut.east = Round4(lastFetch.response.lng)
    /\ mapOut.kind = "map" =>
          /\ lastFetch.response.kind = "ok"
          /\ mapOut.center = <<lastFetch.response.lat, lastFetch.response.lng>>
          /\ mapOut.marker = <<lastFetch.response.lat, lastFetch.response.lng>>

\* C7 witness: text and map are shown for a response whose coordinate is not
\* the catalog coordinate that was sent, and rounds to another text.
CoordinateWitness ==
    /\ textOut.kind = "text"
    /\ mapOut.kind = "map"
    /\ lastFetch.response.lat # lastFetch.params.latitude
    /\ textOut.north # Round4(lastFetch.params.latitude)
    /\ mapOut.center # <<lastFetch.params.latitude, lastFetch.params.longitude>>

\* The rows of the table of series s over the range tt.
RowsOf(s, tt) ==
    [k \in 1..(IF tt[1] <= tt[2] THEN tt[2] - tt[1] + 1 ELSE 0) |->
        LET t == tt[2] - (k - 1)
            d == Cardinality({i \in 1..Len(s) : s[i] < t})
        IN  [Temp |-> t, DaysBelow |-> d, ProportionBelow |-> Proportion(d, Len(s))]]

\* C9: whatever plot has stored in the cached dataframe, its date and
\* temperature columns are those of the series as fetched, and the table
\* shown is the table of the series as fetched.
TableReadsSeriesAsFetched ==
    /\ dfCache.kind = "ok" =>
          /\ lastFetch.response.kind = "ok"
          /\ dfCache.temperature_2m_min = lastFetch.response.values
          /\ dfCache.date = DateRange(lastFetch.response.time,
                                      lastFetch.response.timeEnd,
                                      lastFetch.response.interval)
    /\ (tableOut.kind = "grid" /\ "hist_table" \notin dirty) =>
          /\ lastFetch.response.kind = "ok"
          /\ tableOut.rows = RowsOf(lastFetch.response.values, tableTemp)

\* C9 witness: the table has been rendered again, for a range the user
\* chose, from a dataframe that holds the columns plot added.
TableAfterPlotWitness ==
    /\ tableOut.kind = "grid"
    /\ "hist_table" \notin dirty
    /\ {"weekrollingavg", "monthrollingavg"} \subseteq dfCache.columns
    /\ tableTemp = <<-10, 0>>
    /\ tableOut.rows[1]["DaysBelow"] > 0

\* C10: a plot or table that is shown up to date for a series in some unit
\* was rendered while the sliders stood configured for that unit.
RendersUseResetSliders ==
    /\ (plotOut.kind = "fig" /\ "plot" \notin dirty /\ apiCache.kind = "ok") =>
          /\ plotMin = ResetValues(apiCache.unit).plotMin
          /\ plotMax = ResetValues(apiCache.unit).plotMax
    /\ (tableOut.kind = "grid" /\ "hist_table" \notin dirty /\ apiCache.kind = "ok") =>
          /\ tableMin = ResetValues(apiCache.unit).tableMin
          /\ tableMax = ResetValues(apiCache.unit).tableMax

====
